---- MODULE Spec2Model ----
(***************************************************************************)
(* Analysis orchestration of chess-review: the live Stockfish controller   *)
(* (useStockfish), the game sweep (useGameAnalysis), and the oracle they   *)
(* drive over postMessage.                                                 *)
(*                                                                         *)
(* Modelling conventions                                                   *)
(*  - an optional value (T | null | undefined) is a set with at most one   *)
(*    element: {} is null/undefined, {v} is v;                             *)
(*  - a protocol line is a sequence of tokens; a token is a word or a      *)
(*    number (lines are single-space separated, no leading/trailing blank);*)
(*  - a message in flight carries, beside its line, the position the       *)
(*    oracle computed it for (src): a history field the code cannot see;   *)
(*  - one event-loop task (a user call, a message handler, a timer) is one *)
(*    action; React state updaters are applied when they are queued.       *)
(***************************************************************************)
EXTENDS Integers, Sequences, FiniteSets, TLC

\* ---------------------------------------------------------------- bounds
MaxErrors == 2
MaxCalls == 2
MaxOut == 1
MaxDepth == 2
MaxSweeps == 2
MaxStops == 1
MaxRepeats == 3
MaxIndex == 3

\* ------------------------------------------------------- program constants
MAX_SAFE_DEPTH == 20
ANALYSIS_DEPTH == 16
MateSentinel == 10000
DefaultMultiPv == 3

\* ------------------------------------------------------------- optionals
Null == {}
Some(v) == {v}
IsNull(o) == o = {}
Val(o) == CHOOSE v \in o : TRUE
OrElse(o, d) == IF o = {} THEN d ELSE Val(o)

\* ---------------------------------------------------------------- tokens
W(s) == [w |-> s, n |-> 0]
N(i) == [w |-> "#", n |-> i]
IsNum(t) == t.w = "#"
IsDigits(t) == t.w = "#" /\ t.n >= 0

NoFen == "none"
Fens == {"A", "B"}

\* ------------------------------------------------------- parseInfoLine
\* line.startsWith("info")
StartsWithInfo(line) == Len(line) >= 1 /\ line[1] = W("info")

\* line.includes("info string")
IncludesInfoString(line) ==
  \E i \in 1..(Len(line) - 1) : line[i] = W("info") /\ line[i + 1] = W("string")

\* line.includes(" pv "): a pv token with a token on either side
IncludesPv(line) == \E i \in 2..(Len(line) - 1) : line[i] = W("pv")

\* line.includes("score")
IncludesScore(line) == \E i \in 1..Len(line) : line[i] = W("score")

\* line.match(/\b<key>\s+(\d+)/): the first <key> token followed by digits
MatchNat(line, key) ==
  LET hits == {i \in 1..(Len(line) - 1) : line[i] = W(key) /\ IsDigits(line[i + 1])}
  IN  IF hits = {} THEN Null
      ELSE Some(line[(CHOOSE i \in hits : \A j \in hits : i <= j) + 1].n)

\* The same match without the optional sign.
MatchScoreUnsigned(line, kind) ==
  LET hits == {i \in 1..(Len(line) - 2) :
                 line[i] = W("score") /\ line[i + 1] = W(kind) /\ IsDigits(line[i + 2])}
  IN  IF hits = {} THEN Null
      ELSE Some(line[(CHOOSE i \in hits : \A j \in hits : i <= j) + 2].n)

\* line.match(/\bscore\s+<kind>\s+(-?\d+)/)
MatchScore(line, kind) ==
  LET hits == {i \in 1..(Len(line) - 2) :
                 line[i] = W("score") /\ line[i + 1] = W(kind) /\ IsNum(line[i + 2])}
  IN  IF hits = {} THEN Null
      ELSE Some(line[(CHOOSE i \in hits : \A j \in hits : i <= j) + 2].n)

\* The words of a run of tokens (a move is a word).
Words(toks) == [i \in 1..Len(toks) |-> toks[i].w]

\* line.match(/\bpv\s+(.+)$/), then trim().split(/\s+/): all tokens after the
\* first pv token that has something after it
MatchPv(line) ==
  LET hits == {i \in 1..(Len(line) - 1) : line[i] = W("pv")}
  IN  IF hits = {} THEN Null
      ELSE Some(Words(SubSeq(line, (CHOOSE i \in hits : \A j \in hits : i <= j) + 1,
                             Len(line))))

MateScoreFlat(m) == MateSentinel

MateScore(m) == IF m > 0 THEN MateSentinel ELSE -MateSentinel

\* The parsed record, or Null when the line is not an evaluation line.
parseInfoLine(line) ==
  IF ~StartsWithInfo(line) THEN Null
  ELSE IF IncludesInfoString(line) THEN Null
  ELSE IF ~IncludesPv(line) /\ ~IncludesScore(line) THEN Null
  ELSE LET cp   == MatchScore(line, "cp")
           mate == MatchScore(line, "mate")
       IN  Some([depth    |-> MatchNat(line, "depth"),
                 seldepth |-> MatchNat(line, "seldepth"),
                 multiPv  |-> MatchNat(line, "multipv"),
                 nodes    |-> MatchNat(line, "nodes"),
                 nps      |-> MatchNat(line, "nps"),
                 score    |-> IF mate # Null THEN Some(MateScore(Val(mate))) ELSE cp,
                 mate     |-> mate,
                 pv       |-> MatchPv(line)])

\* ------------------------------------------------------------ the oracle
\* A command posted to a worker, and a message (or error event) it posts back.
Cmd(c, fen, n) == [c |-> c, fen |-> fen, n |-> n]
Msg(line, src) == [err |-> FALSE, line |-> line, src |-> src]
ErrEvent == [err |-> TRUE, line |-> <<>>, src |-> NoFen]

\* What the oracle reports for a position: a score and a move per rank.
\* ("A", "B": the positions the live controller is given; "s", "p1", "p12",
\* "p3": the start position and the positions of the games swept.)
ScoreOf(p, r) ==
  (CASE p = "A" -> 30 [] p = "B" -> -50 [] p = "s" -> 30 [] p = "p1" -> -20
     [] p = "p12" -> 60 [] OTHER -> 150) - 20 * (r - 1)
MoveOf(p, r) ==
  CASE p = "A" -> (IF r = 1 THEN "a1" ELSE "a2")
    [] p = "B" -> (IF r = 1 THEN "b1" ELSE "b2")
    [] p = "s" -> (IF r = 1 THEN "e2e4" ELSE "d2d4")
    [] p = "p1" -> (IF r = 1 THEN "e7e5" ELSE "c7c5")
    [] p = "p12" -> (IF r = 1 THEN "g1f3" ELSE "b1c3")
    [] OTHER -> (IF r = 1 THEN "d7d5" ELSE "g8f6")
MateOf(p) == IF p \in {"A", "p12"} THEN 2 ELSE -1
Ranks == {1, 2}

CpLine(p, d, r) ==
  <<W("info"), W("depth"), N(d), W("multipv"), N(r),
    W("score"), W("cp"), N(ScoreOf(p, r)), W("pv"), W(MoveOf(p, r))>>
SingleLine(p, d) ==
  <<W("info"), W("depth"), N(d), W("score"), W("cp"), N(ScoreOf(p, 1)), W("pv"), W(MoveOf(p, 1))>>
MateLine(p, d) ==
  <<W("info"), W("depth"), N(d), W("multipv"), N(1),
    W("score"), W("mate"), N(MateOf(p)), W("pv"), W(MoveOf(p, 1))>>
StringLine(p, d) ==
  <<W("info"), W("string"), W("depth"), N(d),
    W("score"), W("cp"), N(ScoreOf(p, 1)), W("pv"), W(MoveOf(p, 1))>>
\* The info lines a search of position p may emit at depth d.
OracleLines(p, d) ==
  {CpLine(p, d, r) : r \in Ranks}
    \cup {SingleLine(p, d), MateLine(p, d), StringLine(p, d)}

BestmoveLine(p) == <<W("bestmove"), W(MoveOf(p, 1))>>

\* A freshly created worker: nothing received, nothing posted, no search.
NewOracle ==
  [inq |-> <<>>, outq |-> <<>>, mode |-> "idle", pos |-> NoFen, spos |-> NoFen,
   d |-> 0, crashed |-> FALSE]

Post(o, cmds) == [o EXCEPT !.inq = o.inq \o cmds]

\* The oracle can take its next command: "go" waits for a running search.
CanConsume(o) ==
  /\ ~o.crashed
  /\ o.inq # <<>>
  /\ Len(o.outq) < MaxOut
  /\ Head(o.inq).c = "go" => o.mode = "idle"

Emit(o, line, src) == [o EXCEPT !.outq = Append(o.outq, Msg(line, src))]

\* The oracle after taking its next command.
Consume(o) ==
  LET c == Head(o.inq)
      r == [o EXCEPT !.inq = Tail(o.inq)]
  IN  CASE c.c = "uci"      -> Emit(r, <<W("uciok")>>, NoFen)
        [] c.c = "isready"  -> Emit(r, <<W("readyok")>>, NoFen)
        [] c.c = "position" -> [r EXCEPT !.pos = c.fen]
        [] c.c = "go"       -> [r EXCEPT !.mode = "search", !.spos = r.pos, !.d = 1]
        [] c.c = "stop"     ->
             IF r.mode = "search"
             THEN [Emit(r, BestmoveLine(r.spos), r.spos) EXCEPT
                     !.mode = "idle", !.spos = NoFen, !.d = 0]
             ELSE r
        [] OTHER            -> r

CanSearch(o) == ~o.crashed /\ o.mode = "search" /\ Len(o.outq) < MaxOut

\* The running search reports a line at depth d (depths never go back).
SearchInfo(o, d, line) == [Emit(o, line, o.spos) EXCEPT !.d = d]

\* The running search ends by itself.
SearchDone(o) ==
  [Emit(o, BestmoveLine(o.spos), o.spos) EXCEPT !.mode = "idle", !.spos = NoFen, !.d = 0]

\* The worker fails: it posts an error event and does nothing more.
Fault(o) == [o EXCEPT !.outq = Append(o.outq, ErrEvent), !.crashed = TRUE]

\* ------------------------------------------------- useStockfish: the state
VARIABLES
  workers,        \* the live Workers that exist (id -> oracle), not yet terminated
  created,        \* how many Workers initWorker has constructed
  workerRef,      \* workerRef.current: a worker id, 0 for null
  worker,         \* the effect's "let worker": the last Worker constructed
  pendingFenRef,  \* pendingFenRef.current: a fen, NoFen for null
  optionsRef,     \* optionsRef.current
  state,          \* the hook's React state, as the consumer sees it
  linesRef,       \* linesRef.current: rank -> EngineLine
  timers,         \* restart callbacks scheduled by setTimeout and not yet run
  mounted,        \* the effect's cleanup has not run
  sent,           \* the commands posted to a live worker by the last step
  hist            \* history: what the claims refer to and the code does not store

liveVars ==
  <<workers, created, workerRef, worker, pendingFenRef, optionsRef, state,
    linesRef, timers, mounted, sent, hist>>

\* ---------------------------------------------- useGameAnalysis: the state
VARIABLES
  gaWorker,            \* the sweep's own Worker (constructed once, on mount)
  currentDepth,        \* the message handler's accumulator: depth
  currentEval,         \* and evaluation
  resolveAnalysisRef,  \* resolveAnalysisRef.current: Null, or the closure's
                       \* fen and the sweep whose promise it resolves
  isStoppedRef,        \* isStoppedRef.current
  evaluationCache,     \* the module's Map: fen -> evaluation
  analyzedMoves,       \* React state
  progress,            \* React state
  loops,               \* the analyzeGame activations: sweep id -> its locals
  gaSent,              \* the sweep that posted a search in the last step, or 0
  gaHist               \* history for the claims

sweepVars ==
  <<gaWorker, currentDepth, currentEval, resolveAnalysisRef, isStoppedRef,
    evaluationCache, analyzedMoves, progress, loops, gaSent, gaHist>>

\* ------------------------------------- useChessGame and GameReview: state
VARIABLES
  gameMoves,           \* useChessGame: the React state "moves", the loaded game
  currentMoveIndex,    \* useChessGame: React state, -1 for the start position
  isLoaded,            \* useChessGame: React state
  effectDeps           \* the dependencies GameReview's analyze effect last ran with

reviewVars == <<gameMoves, currentMoveIndex, isLoaded, effectDeps>>

\* ------------------------------------------------ functions examined alone
VARIABLE
  call                 \* a function applied on its own: name, arguments, result

\* No function is being examined.
NoCall == [op |-> "none", args |-> << >>, ret |-> {}]

vars == <<liveVars, sweepVars, reviewVars, call>>

InitialState ==
  [isReady |-> FALSE, isAnalyzing |-> FALSE, evaluation |-> 0, mate |-> Null,
   depth |-> 0, engineLines |-> <<>>]

InitialOptions == [depth |-> Some(20), multiPv |-> Some(DefaultMultiPv)]

\* The options a caller may pass to analyze: none (the initial depth 20 and
\* fanout 3 stay), a depth over the limit with another fanout, or a depth
\* under the limit alone.
AnalyzeOptionChoices ==
  {Null, Some([depth |-> Some(25), multiPv |-> Some(2)]),
   Some([depth |-> Some(12), multiPv |-> Null])}

Min(a, b) == IF a <= b THEN a ELSE b

\* A depth passed to the oracle as requested.
RequestedDepth(opts) == OrElse(opts.depth, MAX_SAFE_DEPTH)

\* Math.min(optionsRef.current.depth ?? MAX_SAFE_DEPTH, MAX_SAFE_DEPTH)
ClampDepth(opts) == Min(OrElse(opts.depth, MAX_SAFE_DEPTH), MAX_SAFE_DEPTH)

\* w?.postMessage(...) for each command: nothing for null or a terminated worker
PostTo(ws, w, cmds) ==
  IF w \in DOMAIN ws THEN [ws EXCEPT ![w] = Post(@, cmds)] ELSE ws

\* What a step posted to worker w, as recorded in sent.
SentTo(ws, w, cmds) == IF w \in DOMAIN ws THEN cmds ELSE <<>>

\* worker.terminate(): the worker and everything in flight with it are gone
Terminate(ws, w) == [v \in (DOMAIN ws) \ {w} |-> ws[v]]

CountGo(cmds) == Cardinality({i \in 1..Len(cmds) : cmds[i].c = "go"})

RECURSIVE SortedRanks(_)
SortedRanks(S) ==
  IF S = {} THEN <<>>
  ELSE LET m == CHOOSE x \in S : \A y \in S : x <= y
       IN  <<m>> \o SortedRanks(S \ {m})

\* Array.from(linesRef.current.values()).sort((a, b) => a.id - b.id)
SortedLines(table) ==
  LET ks == SortedRanks(DOMAIN table) IN [i \in 1..Len(ks) |-> table[ks[i]]]

\* initWorker(): construct a Worker, keep it, attach the handlers, send "uci"
initWorker(ws) ==
  /\ created' = created + 1
  /\ workers' = (created + 1 :> Post(NewOracle, <<Cmd("uci", NoFen, 0)>>)) @@ ws
  /\ workerRef' = created + 1
  /\ worker' = created + 1
  /\ sent' = <<Cmd("uci", NoFen, 0)>>

LiveInit ==
  /\ created = 1
  /\ workers = (1 :> Post(NewOracle, <<Cmd("uci", NoFen, 0)>>))
  /\ workerRef = 1
  /\ worker = 1
  /\ pendingFenRef = NoFen
  /\ optionsRef = InitialOptions
  /\ state = InitialState
  /\ linesRef = << >>
  /\ timers = 0
  /\ mounted = TRUE
  /\ sent = <<Cmd("uci", NoFen, 0)>>
  /\ hist = [lastFen |-> NoFen, outstanding |-> 0, acked |-> 0,
             errWorker |-> 0, calls |-> 0, faults |-> 0, race |-> FALSE,
             reqDepth |-> 20, stopped |-> FALSE]

\* ------------------------------------------- useStockfish: worker.onmessage
Incoming(w) == w \in DOMAIN workers /\ workers[w].outq # <<>>
HeadMsg(w) == Head(workers[w].outq)
Taken(w) == [workers EXCEPT ![w].outq = Tail(@)]

\* message === "uciok": configure MultiPV, then probe readiness
OnUciok(w) ==
  /\ UNCHANGED <<sweepVars, reviewVars, call>>
  /\ Incoming(w) /\ ~HeadMsg(w).err /\ HeadMsg(w).line = <<W("uciok")>>
  /\ LET cmds == <<Cmd("setoption", NoFen, OrElse(optionsRef.multiPv, DefaultMultiPv)),
                   Cmd("isready", NoFen, 0)>>
     IN  /\ workers' = PostTo(Taken(w), worker, cmds)
         /\ sent' = SentTo(Taken(w), worker, cmds)
  /\ UNCHANGED <<created, workerRef, worker, pendingFenRef, optionsRef, state,
                 linesRef, timers, mounted, hist>>

\* The commands the readiness acknowledgement flushes for a pending fen.
FlushCmds(fen, opts) ==
  <<Cmd("position", fen, 0), Cmd("go", NoFen, ClampDepth(opts))>>

\* message === "readyok": ready; a pending analysis is started
OnReadyok(w) ==
  /\ UNCHANGED <<sweepVars, reviewVars, call>>
  /\ Incoming(w) /\ ~HeadMsg(w).err /\ HeadMsg(w).line = <<W("readyok")>>
  /\ LET flush == pendingFenRef # NoFen
         cmds  == IF flush THEN FlushCmds(pendingFenRef, optionsRef) ELSE <<>>
         out   == SentTo(Taken(w), workerRef, cmds)
     IN  /\ workers' = PostTo(Taken(w), workerRef, cmds)
         /\ sent' = out
         /\ pendingFenRef' = NoFen
         /\ state' = [state EXCEPT !.isReady = TRUE,
                                   !.isAnalyzing = IF flush THEN TRUE ELSE @]
         /\ hist' = [hist EXCEPT
                       !.outstanding = @ + CountGo(out),
                       !.acked = w]
  /\ UNCHANGED <<created, workerRef, worker, optionsRef, linesRef, timers, mounted>>

\* The EngineLine built from a parsed line (src: the position it was computed for).
MakeEngineLine(parsed, src) ==
  [id |-> IF parsed.multiPv = Null \/ parsed.multiPv = Some(0) THEN 1 ELSE Val(parsed.multiPv),
   evaluation |-> [score |-> OrElse(parsed.score, 0),
                   mate |-> parsed.mate,
                   depth |-> Val(parsed.depth),
                   bestMove |-> Val(parsed.pv)[1],
                   pv |-> Val(parsed.pv)],
   moves |-> Val(parsed.pv),
   src |-> src]

\* parsed && parsed.depth !== undefined && parsed.pv && parsed.pv.length > 0
Accepted(parsed) ==
  /\ parsed # Null
  /\ Val(parsed).depth # Null
  /\ Val(parsed).pv # Null
  /\ Len(Val(Val(parsed).pv)) > 0

\* A table that keeps only the latest line.
SetLineAlone(table, line) == (line.id :> line)

\* linesRef.current.set(multiPv, engineLine)
SetLine(table, line) == (line.id :> line) @@ table

\* setState after an accepted line: depth, and evaluation and mate of the
\* lowest-ranked line (a null mate there keeps the previous mate); lines is
\* the table's values sorted by id
StateAfterInfo(prev, lines, parsed) ==
  [prev EXCEPT !.depth = Val(parsed.depth),
               !.evaluation = lines[1].evaluation.score,
               !.mate = IF lines[1].evaluation.mate # Null
                        THEN lines[1].evaluation.mate ELSE prev.mate,
               !.engineLines = lines]

\* message.startsWith("info"): the line is parsed once, stored under its
\* rank, and the sorted table is published
OnInfo(w) ==
  /\ UNCHANGED <<sweepVars, reviewVars, call>>
  /\ Incoming(w) /\ ~HeadMsg(w).err /\ StartsWithInfo(HeadMsg(w).line)
  /\ workers' = Taken(w)
  /\ sent' = <<>>
  /\ \E parsed \in {parseInfoLine(HeadMsg(w).line)} :
       IF Accepted(parsed)
       THEN \E table \in {SetLine(linesRef, MakeEngineLine(Val(parsed), HeadMsg(w).src))} :
            \E lines \in {SortedLines(table)} :
              /\ linesRef' = table
              /\ state' = StateAfterInfo(state, lines, Val(parsed))
       ELSE UNCHANGED <<linesRef, state>>
  /\ UNCHANGED <<hist, created, workerRef, worker, pendingFenRef, optionsRef, timers, mounted>>

\* message.startsWith("bestmove"): analysis complete
OnBestmove(w) ==
  /\ UNCHANGED <<sweepVars, reviewVars, call>>
  /\ Incoming(w) /\ ~HeadMsg(w).err
  /\ Len(HeadMsg(w).line) >= 1 /\ HeadMsg(w).line[1] = W("bestmove")
  /\ workers' = Taken(w)
  /\ sent' = <<>>
  /\ state' = [state EXCEPT !.isAnalyzing = FALSE]
  /\ hist' = [hist EXCEPT !.outstanding = IF @ > 0 THEN @ - 1 ELSE 0]
  /\ UNCHANGED <<created, workerRef, worker, pendingFenRef, optionsRef, linesRef,
                 timers, mounted>>

\* A handler that resets the display on error instead of keeping it.
StateAfterErrorBlank(prev) ==
  [prev EXCEPT !.isReady = FALSE, !.isAnalyzing = FALSE,
               !.evaluation = 0, !.mate = Null, !.depth = 0, !.engineLines = << >>]

\* The state worker.onerror leaves: not ready, not analyzing, the rest kept.
StateAfterError(prev) == [prev EXCEPT !.isReady = FALSE, !.isAnalyzing = FALSE]

\* worker.onerror: keep the last evaluation, schedule a restart in one second
OnError(w) ==
  /\ UNCHANGED <<sweepVars, reviewVars, call>>
  /\ Incoming(w) /\ HeadMsg(w).err
  /\ workers' = Taken(w)
  /\ sent' = <<>>
  /\ state' = StateAfterError(state)
  /\ timers' = timers + 1
  /\ hist' = [hist EXCEPT !.errWorker = w]
  /\ UNCHANGED <<created, workerRef, worker, pendingFenRef, optionsRef, linesRef, mounted>>

\* The setTimeout callback of onerror: terminate the current worker, start anew
RestartTimer ==
  /\ UNCHANGED <<sweepVars, reviewVars, call>>
  /\ timers > 0
  /\ timers' = timers - 1
  /\ initWorker(Terminate(workers, workerRef))
  /\ hist' = [hist EXCEPT !.outstanding = 0]
  /\ UNCHANGED <<pendingFenRef, optionsRef, state, linesRef, mounted>>

\* The effect's cleanup: quit and terminate the current worker
Cleanup ==
  /\ UNCHANGED <<sweepVars, reviewVars, call>>
  /\ mounted
  /\ mounted' = FALSE
  /\ workers' = Terminate(workers, workerRef)
  /\ workerRef' = 0
  /\ sent' = SentTo(workers, workerRef, <<Cmd("quit", NoFen, 0)>>)
  /\ hist' = [hist EXCEPT !.outstanding = 0]
  /\ UNCHANGED <<created, worker, pendingFenRef, optionsRef, state, linesRef, timers>>

\* ------------------------------------------- useStockfish: analyze and stop
\* { ...optionsRef.current, ...options }
MergeOptions(cur, options) ==
  [depth |-> IF options.depth # Null THEN options.depth ELSE cur.depth,
   multiPv |-> IF options.multiPv # Null THEN options.multiPv ELSE cur.multiPv]

\* The commands analyze posts to the current worker.
AnalyzeCmds(fen, options, opts, ready) ==
  (IF options # Null /\ Val(options).multiPv # Null /\ Val(options).multiPv # Some(0)
     THEN <<Cmd("setoption", NoFen, Val(Val(options).multiPv))>> ELSE <<>>)
  \o <<Cmd("stop", NoFen, 0)>>
  \o (IF ready
        THEN <<Cmd("ucinewgame", NoFen, 0), Cmd("position", fen, 0),
               Cmd("go", NoFen, ClampDepth(opts))>>
        ELSE <<>>)

\* What analyze leaves in pendingFenRef: the fen while not ready, null once sent
PendingAfterAnalyze(fen, ready) == IF ready THEN NoFen ELSE fen

\* An analyze that blanks the display for the new position.
StateAfterAnalyzeBlank(prev) ==
  [prev EXCEPT !.isAnalyzing = IF prev.isReady THEN TRUE ELSE @,
               !.evaluation = 0, !.mate = Null, !.depth = 0, !.engineLines = << >>]

\* setState in analyze(): unchanged while not ready, else isAnalyzing true
\* with everything else kept
StateAfterAnalyze(prev) ==
  [prev EXCEPT !.isAnalyzing = IF prev.isReady THEN TRUE ELSE @]

\* analyze(fen, options), on the hook's own state
analyze(fen, options) ==
  /\ mounted /\ hist.calls < MaxCalls
  /\ LET opts == IF options = Null THEN optionsRef
                 ELSE MergeOptions(optionsRef, Val(options))
         cmds == AnalyzeCmds(fen, options, opts, state.isReady)
         out  == SentTo(workers, workerRef, cmds)
     IN  /\ optionsRef' = opts
         /\ workers' = PostTo(workers, workerRef, cmds)
         /\ sent' = out
         /\ pendingFenRef' = PendingAfterAnalyze(fen, state.isReady)
         /\ state' = StateAfterAnalyze(state)
         /\ hist' = [hist EXCEPT
                       !.calls = @ + 1, !.lastFen = fen, !.stopped = FALSE,
                       !.reqDepth = IF options # Null /\ Val(options).depth # Null
                                    THEN Val(Val(options).depth) ELSE @,
                       !.outstanding = @ + CountGo(out),
                       !.race = @ \/ (hist.outstanding > 0 /\ fen # hist.lastFen
                                       /\ CountGo(out) > 0)]
  /\ UNCHANGED <<created, workerRef, worker, linesRef, timers, mounted>>

\* analyze(fen, options) called by any consumer
Analyze(fen, options) ==
  /\ analyze(fen, options)
  /\ UNCHANGED <<sweepVars, reviewVars, call>>

\* A stop that leaves isAnalyzing to the bestmove handler.
StateAfterStopLazy(prev, ref) == prev

\* setState in stop(): only with a worker, isAnalyzing false at once
StateAfterStop(prev, ref) ==
  IF ref # 0 THEN [prev EXCEPT !.isAnalyzing = FALSE] ELSE prev

\* stop()
Stop ==
  /\ UNCHANGED <<sweepVars, reviewVars, call>>
  /\ mounted /\ hist.calls < MaxCalls
  /\ workers' = PostTo(workers, workerRef, <<Cmd("stop", NoFen, 0)>>)
  /\ sent' = SentTo(workers, workerRef, <<Cmd("stop", NoFen, 0)>>)
  /\ state' = StateAfterStop(state, workerRef)
  /\ hist' = [hist EXCEPT !.calls = @ + 1, !.stopped = TRUE]
  /\ UNCHANGED <<created, workerRef, worker, pendingFenRef, optionsRef, linesRef,
                 timers, mounted>>

\* ------------------------------------------------- the live worker's steps
OracleUnchanged ==
  /\ UNCHANGED <<created, workerRef, worker, pendingFenRef, optionsRef, state,
                 linesRef, timers, mounted>>
  /\ UNCHANGED <<sweepVars, reviewVars, call>>

OracleStep(w) ==
  /\ w \in DOMAIN workers /\ CanConsume(workers[w])
  /\ workers' = [workers EXCEPT ![w] = Consume(@)]
  /\ sent' = <<>>
  /\ UNCHANGED hist
  /\ OracleUnchanged

OracleInfo(w) ==
  /\ w \in DOMAIN workers /\ CanSearch(workers[w])
  /\ \E d \in workers[w].d..MaxDepth :
       \E line \in OracleLines(workers[w].spos, d) :
         workers' = [workers EXCEPT ![w] = SearchInfo(@, d, line)]
  /\ sent' = <<>>
  /\ UNCHANGED hist
  /\ OracleUnchanged

OracleDone(w) ==
  /\ w \in DOMAIN workers /\ CanSearch(workers[w])
  /\ workers' = [workers EXCEPT ![w] = SearchDone(@)]
  /\ sent' = <<>>
  /\ UNCHANGED hist
  /\ OracleUnchanged

OracleFault(w) ==
  /\ w \in DOMAIN workers
  /\ hist.faults < MaxErrors
  /\ Len(workers[w].outq) < MaxOut
  /\ workers' = [workers EXCEPT ![w] = Fault(@)]
  /\ sent' = <<>>
  /\ hist' = [hist EXCEPT !.faults = @ + 1]
  /\ OracleUnchanged

WorkerIds == 1..(MaxErrors + 1)

LiveNext ==
  \/ \E fen \in Fens : \E options \in AnalyzeOptionChoices : Analyze(fen, options)
  \/ Stop
  \/ \E w \in WorkerIds : OnUciok(w)
  \/ \E w \in WorkerIds : OnReadyok(w)
  \/ \E w \in WorkerIds : OnInfo(w)
  \/ \E w \in WorkerIds : OnBestmove(w)
  \/ \E w \in WorkerIds : OnError(w)
  \/ RestartTimer
  \/ Cleanup
  \/ \E w \in WorkerIds : OracleStep(w)
  \/ \E w \in WorkerIds : OracleInfo(w)
  \/ \E w \in WorkerIds : OracleDone(w)
  \/ \E w \in WorkerIds : OracleFault(w)


\* ------------------------------------------------------------ classifyMove
\* A ladder whose comparisons are strict.
classifyByLossStrict(cpLoss, bestMoveWasPlayed) ==
  IF bestMoveWasPlayed /\ cpLoss < 0 THEN "best"
  ELSE IF cpLoss < 10 THEN (IF bestMoveWasPlayed THEN "best" ELSE "excellent")
  ELSE IF cpLoss < 50 THEN "good"
  ELSE IF cpLoss < 100 THEN "inaccuracy"
  ELSE IF cpLoss < 200 THEN "mistake"
  ELSE "blunder"

\* A ladder that uses the label "great" for a gain by another move than the
\* engine's.
classifyByLossGreat(cpLoss, bestMoveWasPlayed) ==
  IF bestMoveWasPlayed /\ cpLoss <= 0 THEN "best"
  ELSE IF cpLoss < 0 THEN "great"
  ELSE IF cpLoss <= 10 THEN (IF bestMoveWasPlayed THEN "best" ELSE "excellent")
  ELSE IF cpLoss <= 50 THEN "good"
  ELSE IF cpLoss <= 100 THEN "inaccuracy"
  ELSE IF cpLoss <= 200 THEN "mistake"
  ELSE "blunder"

\* The centipawn ladder of classifyMove, first match wins.
classifyByLoss(cpLoss, bestMoveWasPlayed) ==
  IF bestMoveWasPlayed /\ cpLoss <= 0 THEN "best"
  ELSE IF cpLoss <= 10 THEN (IF bestMoveWasPlayed THEN "best" ELSE "excellent")
  ELSE IF cpLoss <= 25 THEN "good"
  ELSE IF cpLoss <= 50 THEN "good"
  ELSE IF cpLoss <= 100 THEN "inaccuracy"
  ELSE IF cpLoss <= 200 THEN "mistake"
  ELSE "blunder"

classifyMove(evalBefore, evalAfter, bestMoveWasPlayed) ==
  LET cpLoss == evalBefore.score - (-evalAfter.score)
  IN  IF evalBefore.mate # Null /\ evalAfter.mate = Null THEN "blunder"
      ELSE IF evalAfter.mate # Null /\ evalBefore.mate = Null
        THEN (IF Val(evalAfter.mate) > 0 THEN "brilliant" ELSE "blunder")
      ELSE IF evalBefore.mate # Null /\ evalAfter.mate # Null
                /\ Val(evalBefore.mate) > 0 /\ Val(evalAfter.mate) < 0 THEN "blunder"
      ELSE IF evalBefore.mate # Null /\ evalAfter.mate # Null
                /\ Val(evalBefore.mate) < 0 /\ Val(evalAfter.mate) > 0 THEN "brilliant"
      ELSE classifyByLoss(cpLoss, bestMoveWasPlayed)

\* ---------------------------------------------- useGameAnalysis: the data
ZeroEval == [score |-> 0, mate |-> Null, depth |-> 0, bestMove |-> "", pv |-> <<>>]

\* chess.js, as far as the sweep uses it: the start position, the moves of the
\* games, and the position each move leads to.
StartFen == "s"
MoveE4 == [san |-> "e4", from |-> "e2", to |-> "e4", promotion |-> "", color |-> "w"]
MoveE5 == [san |-> "e5", from |-> "e7", to |-> "e5", promotion |-> "", color |-> "b"]
MoveD4 == [san |-> "d4", from |-> "d2", to |-> "d4", promotion |-> "", color |-> "w"]
FenAfter(fen, move) ==
  CASE fen = "s" /\ move.san = "e4" -> "p1"
    [] fen = "p1" /\ move.san = "e5" -> "p12"
    [] OTHER -> "p3"
Games == {<< >>, <<MoveE4>>, <<MoveE4, MoveE5>>, <<MoveD4>>}

RECURSIVE FenAt(_, _)
\* The position after the first k moves of a game.
FenAt(moves, k) == IF k = 0 THEN StartFen ELSE FenAfter(FenAt(moves, k - 1), moves[k])

SweepInit ==
  /\ gaWorker = Post(NewOracle, <<Cmd("uci", NoFen, 0)>>)
  /\ currentDepth = 0
  /\ currentEval = ZeroEval
  /\ resolveAnalysisRef = Null
  /\ isStoppedRef = FALSE
  /\ evaluationCache = << >>
  /\ analyzedMoves = << >>
  /\ progress = [currentMove |-> 0, totalMoves |-> 0, isAnalyzing |-> FALSE,
                 isComplete |-> FALSE]
  /\ loops = << >>
  /\ gaSent = 0
  /\ gaHist = [sweeps |-> 0, stops |-> 0, lastPub |-> 0, submits |-> << >>]

\* ------------------------------------------ useGameAnalysis: analyzeGame
\* `${move.move.from}${move.move.to}${move.move.promotion || ""}`
Uci(move) == move.from \o move.to \o move.promotion

\* The evaluation stored on a classified move: negated when White moved.
evalFromWhiteScoreOnly(evalAfter, move) ==
  [evalAfter EXCEPT
     !.score = IF move.color = "w" THEN -evalAfter.score ELSE evalAfter.score]

evalFromWhite(evalAfter, move) ==
  [evalAfter EXCEPT
     !.score = IF move.color = "w" THEN -evalAfter.score ELSE evalAfter.score,
     !.mate = IF move.color = "w" /\ evalAfter.mate # Null
              THEN Some(-Val(evalAfter.mate)) ELSE evalAfter.mate]

\* The locals of one analyzeGame activation, suspended at an await:
\* i = 0 awaits the start position, i > 0 the position after move i.
NewLoop(moves) ==
  [moves |-> moves, i |-> 0, fen |-> StartFen, prevEval |-> ZeroEval,
   result |-> << >>, pc |-> "await", k |-> 0]

\* An activation that has returned (k: the moves it classified and published).
EndedLoop(L, stopped) ==
  [moves |-> L.moves, i |-> 0, fen |-> NoFen, prevEval |-> ZeroEval, result |-> << >>,
   pc |-> IF stopped THEN "halted" ELSE "complete", k |-> Len(L.result)]

\* After the for loop: complete unless stopped.
Finish(c, stopped) ==
  [c EXCEPT !.loop = EndedLoop(c.loop, stopped),
            !.progress = IF stopped THEN c.progress
                         ELSE [currentMove |-> Len(c.loop.moves),
                               totalMoves |-> Len(c.loop.moves),
                               isAnalyzing |-> FALSE, isComplete |-> TRUE],
            !.pub = c.pub \/ ~stopped]

\* The step that follows "await analyzePosition(fenAfter)" for move i.
Classified(L, evalAfter, id) ==
  LET move == L.moves[L.i]
  IN  [san |-> move.san, color |-> move.color, fen |-> L.fen,
       evaluation |-> evalFromWhite(evalAfter, move),
       evalAfter |-> evalAfter,      \* what the await resolved to (not stored by the code)
       classification |-> classifyMove(L.prevEval, evalAfter, L.prevEval.bestMove = Uci(move)),
       by |-> id]

RECURSIVE Iterate(_, _, _), AfterEval(_, _, _, _)
\* The for loop from the top of iteration c.loop.i, run until it awaits a
\* search or returns (a cached position resumes it without a task boundary).
Iterate(c, id, stopped) ==
  LET L == c.loop
  IN  IF L.i > Len(L.moves) \/ stopped THEN Finish(c, stopped)
      ELSE LET prev == IF L.i > 1 /\ L.fen \in DOMAIN c.cache
                       THEN c.cache[L.fen] ELSE L.prevEval
               fenAfter == FenAfter(L.fen, L.moves[L.i])
               L1 == [L EXCEPT !.prevEval = prev, !.fen = fenAfter]
           IN  IF fenAfter \in DOMAIN c.cache
               THEN AfterEval([c EXCEPT !.loop = L1], id, stopped, c.cache[fenAfter])
               ELSE [c EXCEPT !.loop = L1, !.suspend = Some(fenAfter)]

AfterEval(c, id, stopped, evalAfter) ==
  IF stopped THEN Finish(c, stopped)
  ELSE LET L == c.loop
           result == Append(L.result, Classified(L, evalAfter, id))
       IN  Iterate([c EXCEPT
                      !.loop = [L EXCEPT !.result = result, !.prevEval = evalAfter,
                                         !.i = L.i + 1],
                      !.progress = [currentMove |-> L.i, totalMoves |-> Len(L.moves),
                                    isAnalyzing |-> TRUE, isComplete |-> FALSE],
                      !.analyzedMoves = result,
                      !.pub = TRUE],
                   id, stopped)

\* The same without the isStoppedRef checks.
ResumeUnchecked(c, id, stopped, ev) ==
  IF c.loop.i = 0
  THEN Iterate([c EXCEPT !.loop = [c.loop EXCEPT !.prevEval = ev, !.i = 1]], id, FALSE)
  ELSE AfterEval(c, id, FALSE, ev)

\* An activation resumed with the evaluation its await resolved to.
Resume(c, id, stopped, ev) ==
  IF c.loop.i = 0
  THEN Iterate([c EXCEPT !.loop = [c.loop EXCEPT !.prevEval = ev, !.i = 1]], id, stopped)
  ELSE AfterEval(c, id, stopped, ev)

\* analyzePosition's commands for a fen that is not cached
SearchCmds(fen) ==
  <<Cmd("ucinewgame", NoFen, 0), Cmd("position", fen, 0), Cmd("go", NoFen, ANALYSIS_DEPTH)>>

Bump(f, x) == IF x \in DOMAIN f THEN [f EXCEPT ![x] = @ + 1] ELSE (x :> 1) @@ f

\* The variables after activation id ran to context c, on worker w and
\* with the resolver left by whoever resumed it.
Settle(c, id, w, resolver) ==
  /\ evaluationCache' = c.cache
  /\ progress' = c.progress
  /\ analyzedMoves' = c.analyzedMoves
  /\ loops' = (id :> c.loop) @@ loops
  /\ IF c.suspend # Null
     THEN /\ resolveAnalysisRef' = Some([loop |-> id, fen |-> Val(c.suspend)])
          /\ gaWorker' = Post(w, SearchCmds(Val(c.suspend)))
          /\ gaSent' = id
          /\ gaHist' = [gaHist EXCEPT
                          !.sweeps = IF id > @ THEN id ELSE @,
                          !.lastPub = IF c.pub THEN id ELSE @,
                          !.submits = Bump(@, Val(c.suspend))]
     ELSE /\ resolveAnalysisRef' = resolver
          /\ gaWorker' = w
          /\ gaSent' = 0
          /\ gaHist' = [gaHist EXCEPT
                          !.sweeps = IF id > @ THEN id ELSE @,
                          !.lastPub = IF c.pub THEN id ELSE @]

\* analyzeGame(moves), up to its first await of a search
AnalyzeGameUpTo(moves, max) ==
  /\ UNCHANGED <<liveVars, reviewVars, call>>
  /\ gaHist.sweeps < max
  /\ IF Len(moves) = 0 THEN UNCHANGED sweepVars
     ELSE LET id == gaHist.sweeps + 1
              c0 == [cache |-> evaluationCache,
                     progress |-> [currentMove |-> 0, totalMoves |-> Len(moves),
                                   isAnalyzing |-> TRUE, isComplete |-> FALSE],
                     analyzedMoves |-> analyzedMoves,
                     loop |-> NewLoop(moves), pub |-> TRUE, suspend |-> Null]
              c  == IF StartFen \in DOMAIN evaluationCache
                    THEN Resume(c0, id, FALSE, evaluationCache[StartFen])
                    ELSE [c0 EXCEPT !.suspend = Some(StartFen)]
          IN  /\ isStoppedRef' = FALSE
              /\ Settle(c, id, gaWorker, resolveAnalysisRef)
              /\ UNCHANGED <<currentDepth, currentEval>>

AnalyzeGame(moves) == AnalyzeGameUpTo(moves, MaxSweeps)

\* stopAnalysis()
StopAnalysis ==
  /\ UNCHANGED <<liveVars, reviewVars, call>>
  /\ gaHist.stops < MaxStops
  /\ isStoppedRef' = TRUE
  /\ gaWorker' = Post(gaWorker, <<Cmd("stop", NoFen, 0)>>)
  /\ progress' = [progress EXCEPT !.isAnalyzing = FALSE]
  /\ gaSent' = 0
  /\ gaHist' = [gaHist EXCEPT !.stops = @ + 1]
  /\ UNCHANGED <<currentDepth, currentEval, resolveAnalysisRef, evaluationCache,
                 analyzedMoves, loops>>

\* --------------------------------------- useGameAnalysis: worker.onmessage
GaIncoming == gaWorker.outq # <<>>
GaHead == Head(gaWorker.outq)
GaTaken == [gaWorker EXCEPT !.outq = Tail(@)]

\* message === "uciok"
GaOnUciok ==
  /\ UNCHANGED <<liveVars, reviewVars, call>>
  /\ GaIncoming /\ GaHead.line = <<W("uciok")>>
  /\ gaWorker' = Post(GaTaken, <<Cmd("isready", NoFen, 0)>>)
  /\ gaSent' = 0
  /\ UNCHANGED <<currentDepth, currentEval, resolveAnalysisRef, isStoppedRef,
                 evaluationCache, analyzedMoves, progress, loops, gaHist>>

\* message === "readyok"
GaOnReadyok ==
  /\ UNCHANGED <<liveVars, reviewVars, call>>
  /\ GaIncoming /\ GaHead.line = <<W("readyok")>>
  /\ gaWorker' = GaTaken
  /\ gaSent' = 0
  /\ UNCHANGED <<currentDepth, currentEval, resolveAnalysisRef, isStoppedRef,
                 evaluationCache, analyzedMoves, progress, loops, gaHist>>

\* The same without the depth comparison.
AccumulateAnyDepth(acc, line) ==
  LET depth == MatchNat(line, "depth")
      cp    == MatchScore(line, "cp")
      pv    == MatchPv(line)
      e0    == [acc.eval EXCEPT !.depth = Val(depth)]
      e1    == IF cp # Null THEN [e0 EXCEPT !.score = Val(cp), !.mate = Null] ELSE e0
      e3    == IF pv # Null
               THEN [e1 EXCEPT !.pv = Val(pv), !.bestMove = Val(pv)[1]] ELSE e1
  IN  IF depth # Null THEN [depth |-> Val(depth), eval |-> e3] ELSE acc

\* The accumulator after an info line with a pv: a line at a depth not below
\* the recorded one updates depth, score/mate and pv.
Accumulate(acc, line) ==
  LET depth == MatchNat(line, "depth")
      cp    == MatchScore(line, "cp")
      mate  == MatchScore(line, "mate")
      pv    == MatchPv(line)
      e0    == [acc.eval EXCEPT !.depth = Val(depth)]
      e1    == IF cp # Null THEN [e0 EXCEPT !.score = Val(cp), !.mate = Null] ELSE e0
      e2    == IF mate # Null
               THEN [e1 EXCEPT !.mate = mate, !.score = MateScore(Val(mate))] ELSE e1
      e3    == IF pv # Null
               THEN [e2 EXCEPT !.pv = Val(pv), !.bestMove = Val(pv)[1]] ELSE e2
  IN  IF depth # Null /\ Val(depth) >= acc.depth
      THEN [depth |-> Val(depth), eval |-> e3]
      ELSE acc

\* message.startsWith("info") && message.includes(" pv ")
AccumulateInfo(acc, line) ==
  IF StartsWithInfo(line) /\ IncludesPv(line) THEN Accumulate(acc, line) ELSE acc

\* message.startsWith("info") (only a line with " pv " is looked at)
GaOnInfo ==
  /\ UNCHANGED <<liveVars, reviewVars, call>>
  /\ GaIncoming /\ StartsWithInfo(GaHead.line)
  /\ gaWorker' = GaTaken
  /\ gaSent' = 0
  /\ LET acc == AccumulateInfo([depth |-> currentDepth, eval |-> currentEval], GaHead.line)
     IN  currentDepth' = acc.depth /\ currentEval' = acc.eval
  /\ UNCHANGED <<resolveAnalysisRef, isStoppedRef, evaluationCache, analyzedMoves,
                 progress, loops, gaHist>>

\* message.startsWith("bestmove"): resolve the waiting promise with the
\* accumulated evaluation (its closure caches it under its own fen), reset
\* the accumulator; the resumed activation then runs to its next await
GaOnBestmove ==
  /\ UNCHANGED <<liveVars, reviewVars, call>>
  /\ GaIncoming /\ Len(GaHead.line) >= 1 /\ GaHead.line[1] = W("bestmove")
  /\ currentDepth' = 0
  /\ currentEval' = ZeroEval
  /\ UNCHANGED isStoppedRef
  /\ IF resolveAnalysisRef # Null
     THEN LET r  == Val(resolveAnalysisRef)
              c0 == [cache |-> (r.fen :> currentEval) @@ evaluationCache,
                     progress |-> progress, analyzedMoves |-> analyzedMoves,
                     loop |-> loops[r.loop], pub |-> FALSE, suspend |-> Null]
          IN  Settle(Resume(c0, r.loop, isStoppedRef, currentEval), r.loop, GaTaken, Null)
     ELSE /\ gaWorker' = GaTaken
          /\ gaSent' = 0
          /\ UNCHANGED <<resolveAnalysisRef, evaluationCache, analyzedMoves, progress,
                         loops, gaHist>>

\* ------------------------------------------------ the sweep worker's steps
\* The info lines a sweep search may emit (the sweep never sets MultiPV).
SweepLines(p, d) == {SingleLine(p, d), MateLine(p, d), StringLine(p, d)}

GaOracleUnchanged ==
  /\ UNCHANGED <<liveVars, reviewVars, call>>
  /\ gaSent' = 0
  /\ UNCHANGED <<currentDepth, currentEval, resolveAnalysisRef, isStoppedRef,
                 evaluationCache, analyzedMoves, progress, loops, gaHist>>

GaOracleStep ==
  /\ CanConsume(gaWorker)
  /\ gaWorker' = Consume(gaWorker)
  /\ GaOracleUnchanged

GaOracleInfo ==
  /\ CanSearch(gaWorker)
  /\ \E d \in gaWorker.d..MaxDepth :
       \E line \in SweepLines(gaWorker.spos, d) :
         gaWorker' = SearchInfo(gaWorker, d, line)
  /\ GaOracleUnchanged

GaOracleDone ==
  /\ CanSearch(gaWorker)
  /\ gaWorker' = SearchDone(gaWorker)
  /\ GaOracleUnchanged

SweepNext ==
  \/ \E moves \in Games : AnalyzeGame(moves)
  \/ StopAnalysis
  \/ GaOnUciok
  \/ GaOnReadyok
  \/ GaOnInfo
  \/ GaOnBestmove
  \/ GaOracleStep
  \/ GaOracleInfo
  \/ GaOracleDone

\* ------------------------------------------------------------ useChessGame
ReviewInit ==
  /\ gameMoves = << >>
  /\ currentMoveIndex = -1
  /\ isLoaded = FALSE
  /\ effectDeps = [fen |-> StartFen, isLoaded |-> FALSE, engineReady |-> FALSE]

Max(a, b) == IF a >= b THEN a ELSE b

\* gameChess.fen(): the position after moves[0..currentMoveIndex]
Fen == FenAt(gameMoves, currentMoveIndex + 1)

\* chess.js turn() of a position
FenTurn(fen) == IF fen \in {"s", "p12"} THEN "w" ELSE "b"

\* turn: gameChess.turn()
Turn == FenTurn(Fen)

ReviewUnchanged == UNCHANGED <<liveVars, sweepVars, call, effectDeps>>

\* loadPgn(pgn), for a text that parses to game
LoadPgn(game) ==
  /\ gameMoves' = game
  /\ currentMoveIndex' = -1
  /\ isLoaded' = TRUE
  /\ ReviewUnchanged

\* reset()
Reset ==
  /\ gameMoves' = << >>
  /\ currentMoveIndex' = -1
  /\ isLoaded' = FALSE
  /\ ReviewUnchanged

\* An index stored as it is given.
ClampIndexNone(index, length) == index

\* Math.max(-1, Math.min(index, moves.length - 1))
ClampIndex(index, length) == Max(-1, Min(index, length - 1))

\* The indexes a caller may pass to goToMove.
NavIndexes == (-MaxIndex)..MaxIndex

\* goToMove(index)
GoToMove(index) ==
  /\ currentMoveIndex' = ClampIndex(index, Len(gameMoves))
  /\ UNCHANGED <<gameMoves, isLoaded>>
  /\ ReviewUnchanged

\* goToStart()
GoToStart ==
  /\ currentMoveIndex' = -1
  /\ UNCHANGED <<gameMoves, isLoaded>>
  /\ ReviewUnchanged

\* goToEnd()
GoToEnd ==
  /\ currentMoveIndex' = Len(gameMoves) - 1
  /\ UNCHANGED <<gameMoves, isLoaded>>
  /\ ReviewUnchanged

\* goToPrevious()
GoToPrevious ==
  /\ currentMoveIndex' = Max(-1, currentMoveIndex - 1)
  /\ UNCHANGED <<gameMoves, isLoaded>>
  /\ ReviewUnchanged

\* goToNext()
GoToNext ==
  /\ currentMoveIndex' = Min(Len(gameMoves) - 1, currentMoveIndex + 1)
  /\ UNCHANGED <<gameMoves, isLoaded>>
  /\ ReviewUnchanged

\* -------------------------------------------------------------- GameReview
\* The options GameReview passes to analyze.
ReviewOptions == Some([depth |-> Some(20), multiPv |-> Some(3)])

\* useEffect(..., [fen, isLoaded, engineReady, analyze]): runs after a render
\* in which a dependency changed; analyzes the position shown when a game
\* is loaded and the engine is ready
ReviewEffect ==
  LET deps == [fen |-> Fen, isLoaded |-> isLoaded, engineReady |-> state.isReady]
  IN  /\ deps # effectDeps
      /\ effectDeps' = deps
      /\ IF isLoaded /\ state.isReady
         THEN analyze(Fen, ReviewOptions)
         ELSE UNCHANGED liveVars
      /\ UNCHANGED <<gameMoves, currentMoveIndex, isLoaded, sweepVars, call>>

\* The evaluation for the position shown, from the sweep's moves if there.
HasMoveEval == currentMoveIndex >= 0 /\ currentMoveIndex < Len(analyzedMoves)

\* evaluation: the sweep's stored score, else the live one turned to White's side
DisplayedEvaluation ==
  IF HasMoveEval THEN analyzedMoves[currentMoveIndex + 1].evaluation.score
  ELSE IF Turn = "w" THEN state.evaluation ELSE -state.evaluation

\* mate: the sweep's stored mate, else the live one turned to White's side
DisplayedMate ==
  IF HasMoveEval THEN analyzedMoves[currentMoveIndex + 1].evaluation.mate
  ELSE IF state.mate = Null THEN Null
  ELSE IF Turn = "w" THEN state.mate ELSE Some(-Val(state.mate))

\* The review page: navigation, the analyze effect, the live session.
ReviewNext ==
  \/ \E game \in Games : LoadPgn(game)
  \/ Reset
  \/ \E index \in NavIndexes : GoToMove(index)
  \/ GoToStart
  \/ GoToEnd
  \/ GoToPrevious
  \/ GoToNext
  \/ ReviewEffect
  \/ \E w \in WorkerIds : OnUciok(w)
  \/ \E w \in WorkerIds : OnReadyok(w)
  \/ \E w \in WorkerIds : OnInfo(w)
  \/ \E w \in WorkerIds : OnBestmove(w)
  \/ \E w \in WorkerIds : OracleStep(w)
  \/ \E w \in WorkerIds : OracleInfo(w)
  \/ \E w \in WorkerIds : OracleDone(w)

\* ------------------------------------------------------- specifications
Init == LiveInit /\ SweepInit /\ ReviewInit /\ call = NoCall

\* The live controller and its worker.
Spec == Init /\ [][LiveNext]_vars

\* The game sweep and its worker.
SweepSpec == Init /\ [][SweepNext]_vars

\* The review page with its live session.
ReviewSpec == Init /\ [][ReviewNext]_vars

\* The event loop runs every handler and timer that is due, and a worker that
\* has not failed takes the commands it was sent.
EventLoop ==
  \/ RestartTimer
  \/ \E w \in WorkerIds :
       \/ OnUciok(w) \/ OnReadyok(w) \/ OnInfo(w) \/ OnBestmove(w) \/ OnError(w)
       \/ OracleStep(w) \/ OracleDone(w)

LiveFairness == WF_vars(EventLoop)

FairSpec == Spec /\ LiveFairness

\* ---------------------------------------------------- classifyMove alone
\* Evaluations as the sweep's accumulator produces them: a centipawn score
\* with no mate, or a mate with the sentinel score of its sign.
CpEval(s) == [ZeroEval EXCEPT !.score = s]
MateEval(m) == [ZeroEval EXCEPT !.score = MateScore(m), !.mate = Some(m)]

\* Scores whose sums fall on, just under and just over every threshold.
ScoresBefore == {-40, 0, 50}
ScoresAfter ==
  {-51, -50, -40, -1, 0, 1, 10, 11, 25, 26, 50, 51, 100, 101, 150, 151, 200, 201}
Mates == {-2, -1, 1, 3}

EvalsBefore == {CpEval(s) : s \in ScoresBefore} \cup {MateEval(m) : m \in Mates}
EvalsAfter == {CpEval(s) : s \in ScoresAfter} \cup {MateEval(m) : m \in Mates}

ClassifyInit ==
  /\ LiveInit /\ SweepInit /\ ReviewInit
  /\ call \in {[op |-> "classifyMove", args |-> <<b, a, best>>, ret |-> {}] :
                 b \in EvalsBefore, a \in EvalsAfter, best \in BOOLEAN}

\* classifyMove(evalBefore, evalAfter, bestMoveWasPlayed) is applied
ClassifyCall ==
  /\ call.op = "classifyMove" /\ call.ret = {}
  /\ call' = [call EXCEPT
                !.ret = {classifyMove(call.args[1], call.args[2], call.args[3])}]
  /\ UNCHANGED <<liveVars, sweepVars, reviewVars>>

ClassifySpec == ClassifyInit /\ [][ClassifyCall]_vars

\* The game sweep called up to MaxRepeats times and never stopped.
RepeatNext ==
  \/ \E moves \in Games : AnalyzeGameUpTo(moves, MaxRepeats)
  \/ GaOnUciok
  \/ GaOnReadyok
  \/ GaOnInfo
  \/ GaOnBestmove
  \/ GaOracleStep
  \/ GaOracleInfo
  \/ GaOracleDone

RepeatSpec == Init /\ [][RepeatNext]_vars

\* The sweep's worker fails.
GaOracleFault ==
  /\ ~gaWorker.crashed
  /\ Len(gaWorker.outq) < MaxOut
  /\ gaWorker' = Fault(gaWorker)
  /\ GaOracleUnchanged

\* The sweep's worker has no onerror handler: its error event is dropped.
GaErrorEvent ==
  /\ UNCHANGED <<liveVars, reviewVars, call>>
  /\ GaIncoming /\ GaHead.err
  /\ gaWorker' = GaTaken
  /\ gaSent' = 0
  /\ UNCHANGED <<currentDepth, currentEval, resolveAnalysisRef, isStoppedRef,
                 evaluationCache, analyzedMoves, progress, loops, gaHist>>

\* The game sweep with a worker that may fail.
SweepFaultNext == SweepNext \/ GaOracleFault \/ GaErrorEvent

SweepFaultSpec == Init /\ [][SweepFaultNext]_vars

\* The sweep's event loop runs every handler that is due, its worker takes
\* the commands it was sent, and every search it runs ends with a bestmove.
GaEventLoop ==
  GaOnUciok \/ GaOnReadyok \/ GaOnInfo \/ GaOnBestmove \/ GaOracleStep

SweepFairness == WF_vars(GaEventLoop) /\ SF_vars(GaOracleDone)

SweepFairSpec == SweepSpec /\ SweepFairness

SweepFaultFairSpec ==
  SweepFaultSpec /\ WF_vars(GaEventLoop \/ GaErrorEvent) /\ SF_vars(GaOracleDone)

\* ------------------------------------------------ the parsers, alone
\* Info lines as the engine writes them: "info", or "info string" and free
\* text, then depth, multipv, score (cp or mate, perhaps a bound) and pv,
\* each present or not.  parts records what the line was written from.
CpScores == {-30, 0, 45}
MateCounts == {-2, -1, 0, 1, 3}
LineDepths == {{}, {1}, {12}}
LineRanks == {{}, {1}, {2}}
LinePvs == {<< >>, <<"e2e4">>, <<"e2e4", "e7e5">>}
LineParts ==
  [string : BOOLEAN, depth : LineDepths, multipv : LineRanks,
   cp : {{}} \cup {{n} : n \in CpScores},
   mate : {{}} \cup {{m} : m \in MateCounts},
   bound : BOOLEAN, pv : LinePvs]

InfoLine(parts) ==
  <<W("info")>>
    \o (IF parts.string THEN <<W("string")>> ELSE << >>)
    \o (IF parts.depth # {} THEN <<W("depth"), N(Val(parts.depth))>> ELSE << >>)
    \o (IF parts.multipv # {} THEN <<W("multipv"), N(Val(parts.multipv))>> ELSE << >>)
    \o (IF parts.cp # {} THEN <<W("score"), W("cp"), N(Val(parts.cp))>> ELSE << >>)
    \o (IF parts.mate # {} THEN <<W("score"), W("mate"), N(Val(parts.mate))>> ELSE << >>)
    \o (IF parts.bound THEN <<W("lowerbound")>> ELSE << >>)
    \o (IF parts.pv # << >> THEN <<W("pv")>> \o [i \in 1..Len(parts.pv) |-> W(parts.pv[i])]
        ELSE << >>)

\* A score is a centipawn count or a mate count, and a bound qualifies a score.
WrittenParts ==
  {parts \in LineParts : /\ parts.cp = {} \/ parts.mate = {}
                         /\ parts.bound => parts.cp # {} \/ parts.mate # {}}

\* The sweep accumulator between two messages of a search.
Accumulators ==
  {[depth |-> 0, eval |-> ZeroEval],
   [depth |-> 12, eval |-> [score |-> 45, mate |-> Null, depth |-> 12,
                            bestMove |-> "d2d4", pv |-> <<"d2d4">>]],
   [depth |-> 1, eval |-> [score |-> -MateSentinel, mate |-> Some(-2), depth |-> 1,
                           bestMove |-> "d2d4", pv |-> <<"d2d4">>]]}

ParseInit ==
  /\ LiveInit /\ SweepInit /\ ReviewInit
  /\ \E parts \in WrittenParts :
       \/ call = [op |-> "parseInfoLine", args |-> <<InfoLine(parts)>>, ret |-> {},
                  parts |-> parts]
       \/ \E acc \in Accumulators :
            call = [op |-> "accumulate", args |-> <<acc, InfoLine(parts)>>, ret |-> {},
                    parts |-> parts]

\* parseInfoLine(line) is applied
ParseCall ==
  /\ call.op = "parseInfoLine" /\ call.ret = {}
  /\ call' = [call EXCEPT !.ret = {parseInfoLine(call.args[1])}]
  /\ UNCHANGED <<liveVars, sweepVars, reviewVars>>

\* the sweep's message handler takes the line into its accumulator
AccumulateCall ==
  /\ call.op = "accumulate" /\ call.ret = {}
  /\ call' = [call EXCEPT !.ret = {AccumulateInfo(call.args[1], call.args[2])}]
  /\ UNCHANGED <<liveVars, sweepVars, reviewVars>>

ParseNext == ParseCall \/ AccumulateCall

ParseSpec == ParseInit /\ [][ParseNext]_vars


\* ------------------------------------------------------ claims: live session
IsSubmission(c) == c.c \in {"position", "go"}
Submitted(cmds) == {i \in 1..Len(cmds) : IsSubmission(cmds[i])}

\* Every message delivered, no search running, every search answered, and no
\* transport error in the run.
LiveSettled ==
  /\ mounted /\ hist.faults = 0
  /\ workerRef \in DOMAIN workers
  /\ workers[workerRef].inq = <<>> /\ workers[workerRef].outq = <<>>
  /\ workers[workerRef].mode = "idle"
  /\ pendingFenRef = NoFen
  /\ hist.outstanding = 0

\* C1: analyze(A) then analyze(B) before A's search finished: once the oracle
\* is quiet, every engine line shown (and so the evaluation, taken from the
\* first of them) and every entry of the line table was emitted for B, and the
\* mate shown is that of B's first line.
C1_OnlyLatestFen ==
  (hist.race /\ LiveSettled) =>
    /\ \A i \in 1..Len(state.engineLines) : state.engineLines[i].src = hist.lastFen
    /\ \A r \in DOMAIN linesRef : linesRef[r].src = hist.lastFen
    /\ Len(state.engineLines) > 0 => state.mate = state.engineLines[1].evaluation.mate

\* C2: a position/go is never posted while an earlier search is outstanding
\* (its go sent, its bestmove not yet received): right after a step that
\* posts a go, that go is the only search outstanding.
C2_SubmitAfterBestmove ==
  CountGo(sent) > 0 => hist.outstanding = CountGo(sent)

\* C7: the step that handles a transport error (it schedules a restart)
\* leaves evaluation, mate, depth, engineLines and the line table as they
\* were, and sets isReady and isAnalyzing to false.
C7_ErrorKeepsEvaluation ==
  [][timers' > timers =>
       /\ state'.evaluation = state.evaluation
       /\ state'.mate = state.mate
       /\ state'.depth = state.depth
       /\ state'.engineLines = state.engineLines
       /\ linesRef' = linesRef
       /\ ~state'.isReady /\ ~state'.isAnalyzing]_vars

\* An error was handled while lines were on display.
C7_Witness == timers > 0 /\ Len(state.engineLines) > 0 /\ state.depth > 0

\* An error has been handled and no worker constructed after the worker that
\* raised it has acknowledged readiness yet.
ErrPending == hist.errWorker > 0 /\ hist.acked <= hist.errWorker

\* C8: once a transport error has been handled, isReady is true only while
\* the worker in use is one constructed after the failed worker and has
\* acknowledged readiness.
C8_NotReadyUntilRestartAcks ==
  (mounted /\ hist.errWorker > 0 /\ state.isReady) =>
    (workerRef = hist.acked /\ hist.acked > hist.errWorker)

\* The liveness half of C8: after an error, the restart timer firing and the
\* new worker answering the handshake, isReady becomes true again unless the
\* hook is unmounted first.
RecoversAfterError == ErrPending ~> (state.isReady \/ ~mounted)

\* C9: at most one restart is scheduled at a time and at most one worker exists.
C9_OneRestartInFlight == timers <= 1 /\ Cardinality(DOMAIN workers) <= 1

\* C10: every step posts a position/go only to a worker that has
\* acknowledged readiness; it posts at most one submission, and its position
\* is the fen of the most recent analyze call; a fen is pending only while
\* not ready and is that fen; and the step on which isReady turns true with a
\* fen pending posts exactly "position <that fen>" and one "go".
C10_PendingLastWins ==
  [][/\ Submitted(sent') # {} => (state'.isReady /\ hist'.acked = workerRef')
     /\ \A i \in 1..Len(sent') : sent'[i].c = "position" => sent'[i].fen = hist'.lastFen
     /\ CountGo(sent') <= 1
     /\ Cardinality({i \in 1..Len(sent') : sent'[i].c = "position"}) <= 1
     /\ pendingFenRef' # NoFen => (~state'.isReady /\ pendingFenRef' = hist'.lastFen)
     /\ (~state.isReady /\ state'.isReady /\ pendingFenRef # NoFen) =>
          /\ Len(sent') = 2
          /\ sent'[1] = Cmd("position", hist.lastFen, 0)
          /\ sent'[2].c = "go"
          /\ pendingFenRef' = NoFen]_vars

\* ------------------------------------------------------- claims: game sweep
\* C3: once analyzeGame has been called again, only the newest sweep
\* publishes progress and analyzedMoves and only it submits positions: the
\* last publication and any search posted in the last step are the
\* newest sweep's.
C3_NewSweepCancelsOld ==
  gaHist.sweeps > 0 =>
    /\ gaHist.lastPub = gaHist.sweeps
    /\ gaSent \in {0, gaHist.sweeps}

\* C4: when the newest sweep has halted on stopAnalysis after publishing k of
\* its moves, analyzedMoves is exactly its first k moves and isComplete is false.
C4_StopKeepsPrefix ==
  (gaHist.sweeps > 0 /\ loops[gaHist.sweeps].pc = "halted") =>
    LET L == loops[gaHist.sweeps]
    IN  /\ Len(analyzedMoves) = L.k
        /\ \A i \in 1..Len(analyzedMoves) :
             /\ analyzedMoves[i].san = L.moves[i].san
             /\ analyzedMoves[i].by = gaHist.sweeps
        /\ ~progress.isComplete

\* C5: a call of analyzeGame(M), |M| = N > 0, made after a cancelled sweep
\* leaves no entry of an earlier sweep in analyzedMoves, and progress at
\* 0 / N, analyzing, not complete, until the new sweep classifies a move.
C5_FreshSweepDiscards ==
  [][(gaHist.sweeps' > gaHist.sweeps /\ gaHist.sweeps > 0
        /\ loops[gaHist.sweeps].pc = "halted") =>
       /\ \A i \in 1..Len(analyzedMoves') : analyzedMoves'[i].by = gaHist.sweeps'
       /\ loops'[gaHist.sweeps'].pc = "await" /\ loops'[gaHist.sweeps'].result = << >> =>
            progress' = [currentMove |-> 0,
                         totalMoves |-> Len(loops'[gaHist.sweeps'].moves),
                         isAnalyzing |-> TRUE, isComplete |-> FALSE]]_vars

\* C6: no fen is submitted to the oracle more than once (the cache is never
\* cleared in these runs).
C6_SubmitOncePerFen ==
  \A f \in DOMAIN gaHist.submits : gaHist.submits[f] <= 1

\* ------------------------------------------- claims: live session, calls
\* C11: right after stop() isAnalyzing is false, whether or not the oracle
\* has answered, and a second stop() applied to the state the first one left
\* changes nothing the consumer sees.
C11_StopImmediateIdempotent ==
  [][Stop => /\ ~state'.isAnalyzing
             /\ StateAfterStop(state', workerRef') = state']_vars

\* stop() was called while a search was running and its bestmove is still
\* to come.
C11_Witness ==
  /\ sent = <<Cmd("stop", NoFen, 0)>> /\ state.isReady
  /\ hist.outstanding > 0 /\ ~state.isAnalyzing

\* What the consumer is shown of the evaluation, and the line table behind it.
Display == <<state.engineLines, state.evaluation, state.mate, state.depth, linesRef>>

\* C12: an analyze or stop step leaves engineLines, evaluation, mate, depth
\* and the line table as they were, and a step that changes any of them is
\* the processing of an info line.
C12_CallsKeepDisplay ==
  [][/\ (Stop \/ \E fen \in Fens : \E options \in AnalyzeOptionChoices :
                   Analyze(fen, options)) => Display' = Display
     /\ Display' # Display => \E w \in WorkerIds : OnInfo(w)]_vars

\* analyze started a search while lines of an earlier search were on display.
C12_Witness ==
  /\ \E i \in 1..Len(sent) : sent[i].c = "ucinewgame"
  /\ Len(state.engineLines) > 0 /\ linesRef # << >> /\ state.depth > 0

\* C13: every "go depth d" the live controller posts, from analyze or from
\* the flush at readiness, has d <= 20, and d is the depth last requested
\* (20 when none was) whenever that is <= 20.
C13_DepthClamped ==
  \A i \in 1..Len(sent) : sent[i].c = "go" =>
    /\ sent[i].n <= 20
    /\ hist.reqDepth <= 20 => sent[i].n = hist.reqDepth

\* A go was posted while the depth last requested was 25.
C13_Witness == CountGo(sent) > 0 /\ hist.reqDepth = 25

\* ------------------------------------------------------- claims: classifyMove
\* The call of classifyMove examined has returned; its arguments and result.
HasClassified == call.op = "classifyMove" /\ call.ret # {}
EvalBefore == call.args[1]
EvalAfter == call.args[2]
BestPlayed == call.args[3]
Label == Val(call.ret)

\* C14: with no mate before and a mate after, evalAfter being the
\* opponent's view: blunder when the opponent mates (evalAfter.mate > 0),
\* brilliant when the mover does (evalAfter.mate < 0).
C14_MateAppears ==
  (HasClassified /\ EvalBefore.mate = Null /\ EvalAfter.mate # Null) =>
    /\ Val(EvalAfter.mate) > 0 => Label = "blunder"
    /\ Val(EvalAfter.mate) < 0 => Label = "brilliant"

\* C15: with a mate before and after: from the mover mating
\* (evalBefore.mate > 0) to the opponent mating (evalAfter.mate > 0) is a
\* blunder, and from evalBefore.mate < 0 to evalAfter.mate < 0 is brilliant.
C15_MateSwings ==
  (HasClassified /\ EvalBefore.mate # Null /\ EvalAfter.mate # Null) =>
    /\ (Val(EvalBefore.mate) > 0 /\ Val(EvalAfter.mate) > 0) => Label = "blunder"
    /\ (Val(EvalBefore.mate) < 0 /\ Val(EvalAfter.mate) < 0) => Label = "brilliant"

\* C16: with no mate on either side the label is the first match of the
\* ladder on cpLoss = evalBefore.score + evalAfter.score.
C16_Ladder ==
  (HasClassified /\ EvalBefore.mate = Null /\ EvalAfter.mate = Null) =>
    LET cpLoss == EvalBefore.score + EvalAfter.score
    IN  Label = CASE cpLoss <= 0 /\ BestPlayed -> "best"
                  [] cpLoss <= 10 /\ BestPlayed -> "best"
                  [] cpLoss <= 10 /\ ~BestPlayed -> "excellent"
                  [] cpLoss > 10 /\ cpLoss <= 50 -> "good"
                  [] cpLoss > 50 /\ cpLoss <= 100 -> "inaccuracy"
                  [] cpLoss > 100 /\ cpLoss <= 200 -> "mistake"
                  [] cpLoss > 200 -> "blunder"

\* 50, -40, best move played: cpLoss 10, best.
C16_Witness ==
  /\ HasClassified /\ EvalBefore = CpEval(50) /\ EvalAfter = CpEval(-40) /\ BestPlayed
  /\ Label = "best"

\* C17: classifyMove never returns great, book or missed_win.
C17_UnusedLabels ==
  HasClassified => Label \notin {"great", "book", "missed_win"}

\* A gain by a move other than the engine's has been classified.
C17_Witness ==
  /\ HasClassified /\ ~BestPlayed /\ EvalBefore.mate = Null /\ EvalAfter.mate = Null
  /\ EvalBefore.score + EvalAfter.score < 0

\* C18: every classified move of a sweep stores evalAfter with score and
\* mate negated when the mover was White and unchanged when the mover was
\* Black; a null mate stays null and the other fields are evalAfter's.
C18_StoredFromWhite ==
  \A i \in 1..Len(analyzedMoves) :
    LET m == analyzedMoves[i]
        a == m.evalAfter
        e == m.evaluation
    IN  /\ e.depth = a.depth /\ e.pv = a.pv /\ e.bestMove = a.bestMove
        /\ (a.mate = Null) <=> (e.mate = Null)
        /\ IF m.color = "w"
           THEN /\ e.score = -a.score
                /\ a.mate # Null => Val(e.mate) = -Val(a.mate)
           ELSE /\ e.score = a.score
                /\ e.mate = a.mate

C18_Witness ==
  /\ \E i \in 1..Len(analyzedMoves) :
       /\ analyzedMoves[i].color = "w"
       /\ analyzedMoves[i].evalAfter.mate # Null
       /\ analyzedMoves[i].evalAfter.score # 0
  /\ \E j \in 1..Len(analyzedMoves) :
       /\ analyzedMoves[j].color = "b"
       /\ analyzedMoves[j].evalAfter.score # 0

\* ---------------------------------------------------------------- C19, C20
Parsed == call.op = "parseInfoLine" /\ call.ret # {}
Accumulated == call.op = "accumulate" /\ call.ret # {}
Returned == Val(call.ret)

\* C19: for an info line written with a centipawn score n and a principal
\* variation and no mate score, parseInfoLine returns a record with
\* score = n and mate = null.
C19_CpParsed ==
  Parsed /\ ~call.parts.string /\ call.parts.cp # {} /\ call.parts.pv # << >>
         /\ call.parts.mate = {}
    => /\ Returned # Null
       /\ Val(Returned).score = call.parts.cp
       /\ Val(Returned).mate = Null

C19_Witness ==
  /\ Parsed /\ ~call.parts.string /\ call.parts.cp = {-30} /\ call.parts.bound
  /\ call.parts.pv = <<"e2e4", "e7e5">> /\ call.parts.multipv = {2}
  /\ Returned # Null /\ Val(Returned).score = {-30}

\* C20: for an info line written with a mate score m, parseInfoLine returns
\* mate = m and score = +10000 when m > 0, -10000 when m < 0; the sweep's
\* accumulator, when it takes such a line, records the same mate and score.
C20_MateSentinel ==
  /\ Parsed /\ ~call.parts.string /\ call.parts.mate # {}
       => /\ Returned # Null
          /\ Val(Returned).mate = call.parts.mate
          /\ Val(call.parts.mate) > 0 => Val(Returned).score = {10000}
          /\ Val(call.parts.mate) < 0 => Val(Returned).score = {-10000}
  /\ Accumulated /\ call.parts.mate # {} /\ call.parts.pv # << >>
       /\ call.parts.depth # {} /\ Val(call.parts.depth) >= call.args[1].depth
       => /\ Returned.eval.mate = call.parts.mate
          /\ Val(call.parts.mate) > 0 => Returned.eval.score = 10000
          /\ Val(call.parts.mate) < 0 => Returned.eval.score = -10000

C20_Witness ==
  /\ Accumulated /\ call.parts.mate = {3} /\ call.parts.pv # << >>
  /\ call.args[1].eval.mate = {-2} /\ call.parts.depth = {12}
  /\ Returned.eval.mate = {3} /\ Returned.eval.score = 10000

\* C21: a line with the free-text marker "info string" produces no
\* evaluation update: parseInfoLine returns null for it (so the live line
\* table is left alone), and the sweep's accumulated evaluation does not
\* change when its handler receives such a line.
C21_StringLineIgnored ==
  [][GaOnInfo /\ IncludesInfoString(GaHead.line)
       => /\ parseInfoLine(GaHead.line) = Null
          /\ currentDepth' = currentDepth /\ currentEval' = currentEval]_vars

\* C22: a sweep that is never cancelled eventually ends: each activation of
\* analyzeGame, unless stopAnalysis is called, returns complete (having
\* classified all its moves), also when another analyzeGame call was made
\* while it ran.
C22_SweepCompletes ==
  \A id \in 1..MaxSweeps :
    (id \in DOMAIN loops)
      ~> (gaHist.stops > 0
            \/ (/\ id \in DOMAIN loops
                /\ loops[id].pc = "complete" /\ loops[id].k = Len(loops[id].moves)))

\* C23: stopAnalysis() leaves analyzedMoves unchanged and changes only
\* progress.isAnalyzing, to false; from then until the next analyzeGame call
\* (while isStoppedRef stays set) analyzedMoves, progress.currentMove and
\* progress.isComplete do not change.
C23_StopFreezes ==
  [][/\ StopAnalysis => /\ analyzedMoves' = analyzedMoves
                        /\ progress' = [progress EXCEPT !.isAnalyzing = FALSE]
     /\ isStoppedRef /\ isStoppedRef'
          => /\ analyzedMoves' = analyzedMoves
             /\ progress'.currentMove = progress.currentMove
             /\ progress'.isComplete = progress.isComplete]_vars

C23_Witness ==
  /\ isStoppedRef /\ Len(analyzedMoves) = 1 /\ ~progress.isComplete
  /\ ~progress.isAnalyzing /\ progress.totalMoves = 2
  /\ \E id \in DOMAIN loops : loops[id].pc = "halted" /\ loops[id].k = 1

\* C24: 0 <= progress.currentMove <= progress.totalMoves in every state,
\* isComplete implies currentMove = totalMoves and not isAnalyzing, and
\* between two analyzeGame calls progress.currentMove never decreases.
IsAnalyzeGameStep == gaHist'.sweeps # gaHist.sweeps

C24_ProgressRange ==
  /\ 0 <= progress.currentMove /\ progress.currentMove <= progress.totalMoves
  /\ progress.isComplete
       => progress.currentMove = progress.totalMoves /\ ~progress.isAnalyzing

C24_ProgressMonotonic ==
  [][/\ C24_ProgressRange'
     /\ ~IsAnalyzeGameStep => progress'.currentMove >= progress.currentMove]_vars

\* C25: cancelling a sweep does not interrupt the search in flight:
\* stopAnalysis() sends nothing to the worker, and a running search ends
\* only by itself, at its depth.
C25_StopNotPreemptive ==
  [][/\ StopAnalysis => gaWorker'.inq = gaWorker.inq
     /\ gaWorker.mode = "search" /\ gaWorker'.mode # "search" => GaOracleDone]_vars

\* C26: after a failure of the sweep's worker the session is restarted, so
\* a sweep in progress at the failure does not stay with isAnalyzing = true
\* for ever.
C26_SweepSurvivesFault ==
  (gaWorker.crashed /\ progress.isAnalyzing)
    ~> (~gaWorker.crashed \/ ~progress.isAnalyzing)

\* C27: every entry evaluationCache[F] the sweep writes comes from a search
\* of F itself: the bestmove that resolves the waiting analyzePosition(F) is
\* the one of a search of F, and the evaluation stored was accumulated from
\* info lines of F (its best move is the engine's move for F).
C27_CacheFromOwnSearch ==
  [][GaOnBestmove /\ resolveAnalysisRef # Null
       => LET F == Val(resolveAnalysisRef).fen
          IN  /\ GaHead.src = F
              /\ evaluationCache'[F] = currentEval
              /\ currentEval.bestMove \in {"", MoveOf(F, 1)}]_vars

\* C28: in the sweep, an info line whose depth is below the recorded depth
\* leaves the accumulated evaluation (score, mate, depth, bestMove, pv) as
\* it was, and no info line lowers the recorded depth.
C28_SweepDepthMonotonic ==
  Accumulated
    => /\ Returned.depth >= call.args[1].depth
       /\ Returned.eval.depth >= call.args[1].eval.depth
       /\ call.parts.depth # {} /\ Val(call.parts.depth) < call.args[1].depth
            => Returned = call.args[1]

C28_Witness ==
  /\ Accumulated /\ call.parts.depth = {1} /\ call.args[1].depth = 12
  /\ call.parts.cp = {-30} /\ call.parts.pv = <<"e2e4">> /\ ~call.parts.string
  /\ Returned.eval.score = 45 /\ Returned.eval.bestMove = "d2d4"

\* C29: in the live session's line table the depth recorded for a rank
\* never decreases: a line for rank r at a depth below the recorded one
\* does not overwrite the entry.
C29_LiveDepthMonotonic ==
  [][\A r \in DOMAIN linesRef :
       r \in DOMAIN linesRef'
         => linesRef'[r].evaluation.depth >= linesRef[r].evaluation.depth]_vars

\* C30: every submission of the live session, direct or flushed from the
\* pending slot, sends 'ucinewgame', 'position fen F' and 'go depth d', in
\* this order.
C30_SubmissionSequence ==
  \A i \in 1..Len(sent) :
    sent[i].c = "go"
      => /\ i >= 3
         /\ sent[i - 1].c = "position" /\ sent[i - 1].fen # NoFen
         /\ sent[i - 2].c = "ucinewgame"

\* --------------------------------------------------------------------- C31
HasCmd(cmds, c) == \E i \in 1..Len(cmds) : cmds[i].c = c
HasLine(msgs, line) == \E i \in 1..Len(msgs) : ~msgs[i].err /\ msgs[i].line = line

\* Worker w's 'uciok' has been received by its handler.
Handshaken(w) ==
  /\ w \in DOMAIN workers
  /\ ~HasCmd(workers[w].inq, "uci")
  /\ ~HasLine(workers[w].outq, <<W("uciok")>>)

\* The step is the current worker's handler receiving this line.
TakesLine(line) ==
  \E w \in DOMAIN workers :
    /\ w = workerRef /\ Incoming(w) /\ ~HeadMsg(w).err /\ HeadMsg(w).line = line
    /\ w \in DOMAIN workers' /\ workers'[w].outq = Tail(workers[w].outq)

\* C31: 'uci' is sent exactly when a worker is created; 'setoption name
\* MultiPV' goes out only after the current worker's 'uciok' was received,
\* and 'isready' only on receiving it, right after the setoption; isReady
\* becomes true only on receiving the current worker's 'readyok'.
C31_HandshakeOrder ==
  [][/\ HasCmd(sent', "uci") <=> created' = created + 1
     /\ HasCmd(sent', "isready")
          => /\ TakesLine(<<W("uciok")>>)
             /\ Len(sent') = 2 /\ sent'[1].c = "setoption" /\ sent'[2].c = "isready"
     /\ HasCmd(sent', "setoption")
          => TakesLine(<<W("uciok")>>) \/ Handshaken(workerRef)
     /\ state'.isReady /\ ~state.isReady => TakesLine(<<W("readyok")>>)]_vars

\* C32: after every accepted evaluation line, engineLines holds exactly the
\* entries of the line table, one per rank, in strictly ascending rank
\* order (a line without multipv is stored under rank 1, the table keeps
\* the other ranks), and evaluation is the score of the lowest-ranked line.
C32_SnapshotSorted ==
  [][\A w \in WorkerIds :
       OnInfo(w) /\ Accepted(parseInfoLine(HeadMsg(w).line))
         => LET lines == state'.engineLines
                rank  == OrElse(MatchNat(HeadMsg(w).line, "multipv"), 1)
            IN  /\ Len(lines) = Cardinality(DOMAIN linesRef')
                /\ \A i \in 1..Len(lines) :
                     lines[i].id \in DOMAIN linesRef' /\ lines[i] = linesRef'[lines[i].id]
                /\ \A i \in 1..(Len(lines) - 1) : lines[i].id < lines[i + 1].id
                /\ DOMAIN linesRef' = DOMAIN linesRef \cup {rank}
                /\ \A r \in DOMAIN linesRef \ {rank} : linesRef'[r] = linesRef[r]
                /\ linesRef'[rank].evaluation.depth
                     = Val(MatchNat(HeadMsg(w).line, "depth"))
                /\ state'.evaluation = lines[1].evaluation.score]_vars

C32_Witness ==
  /\ Len(state.engineLines) = 2
  /\ state.engineLines[1].id = 1 /\ state.engineLines[2].id = 2
  /\ state.engineLines[1].evaluation.depth > state.engineLines[2].evaluation.depth
  /\ state.evaluation = state.engineLines[1].evaluation.score
  /\ state.evaluation # 0

\* C33: once a search has been submitted, isAnalyzing stays true until its
\* own bestmove, a stop() or an error: the bestmove of an earlier search
\* (another search is still outstanding after it) does not clear it.
C33_StaleBestmoveIgnored ==
  [][\A w \in WorkerIds :
       OnBestmove(w) /\ state.isAnalyzing /\ hist.outstanding > 1
         => state'.isAnalyzing]_vars

\* C34: after each accepted evaluation line the consumer-visible mate is
\* the mate field of the lowest-ranked line of the table, null when that
\* line carries a centipawn score.
C34_MateOfMainLine ==
  [][\A w \in WorkerIds :
       OnInfo(w) /\ Accepted(parseInfoLine(HeadMsg(w).line))
         => state'.mate = state'.engineLines[1].evaluation.mate]_vars

\* C35: stop() cancels a queued submission: after stop() and until the next
\* analyze call (hist.stopped) no search is submitted, not even on reaching
\* Ready, and isAnalyzing stays false.
C35_StopCancelsPending ==
  [][hist.stopped /\ hist'.stopped
       => /\ ~HasCmd(sent', "go")
          /\ ~state.isAnalyzing => ~state'.isAnalyzing]_vars

\* C36: after the live hook's cleanup no oracle worker exists and none is
\* created, even with a restart timer still pending at cleanup.
C36_NoWorkerAfterCleanup ==
  /\ ~mounted => DOMAIN workers = {}
  /\ ~mounted => workerRef = 0

\* C39: after any sequence of loadPgn, reset, goToMove(i), goToStart,
\* goToEnd, goToPrevious and goToNext, -1 <= currentMoveIndex <=
\* moves.length - 1; loadPgn and reset set the index to -1.
C39_IndexRange ==
  /\ -1 <= currentMoveIndex /\ currentMoveIndex <= Len(gameMoves) - 1

MainLineTurn == FenTurn(state.engineLines[1].src)

WhiteView(turn, score) == IF turn = "w" THEN score ELSE -score

C37_WhitePerspective ==
  state.engineLines # << >> /\ ~HasMoveEval =>
    /\ DisplayedEvaluation = WhiteView(MainLineTurn, state.evaluation)
    /\ state.engineLines[1].evaluation.mate # Null /\ state.mate # Null =>
         DisplayedMate = Some(WhiteView(MainLineTurn, Val(state.mate)))


\* C38: a move for which bestMoveWasPlayed is true is never labelled
\* inaccuracy, mistake or blunder by classifyMove, whatever the two
\* evaluations are, forced mates included.
C38_BestNeverBad ==
  HasClassified /\ BestPlayed => Label \notin {"inaccuracy", "mistake", "blunder"}

====
